---------------------------- MODULE Spec2Model ----------------------------
(***************************************************************************)
(* Word-frequency counting over a byte stream, in the two Rust variants of *)
(* the repository:                                                         *)
(*   fast-simple       (src/rust/fast-simple/main.rs): one thread;         *)
(*   fun-with-threads  (src/rust/fun-with-threads/main.rs): a reader       *)
(*                     thread, a tokenizer thread and the main thread,     *)
(*                     joined by two unbounded crossbeam channels.         *)
(* Bytes are their integer values (10 is '\n', 32 is ' ', 65 is 'A', ...). *)
(* Variables of fast-simple are prefixed fs_, those of fun-with-threads    *)
(* ft_ (process-wide), r_ (reader thread), w_ (ready_words thread).        *)
(***************************************************************************)
EXTENDS Integers, Sequences, FiniteSets, TLC

VARIABLES
    program,          \* which binaries run on the input: "fs", "ft" or "both"
    input,            \* the bytes stdin will deliver
    base,             \* the text `input` was built from (input, or one half of it)
    \* ---- fast-simple
    fs_pc,            \* position in try_main / main
    fs_pos,           \* bytes of stdin already read by the BufReader
    fs_in_buffer,     \* BufReader: bytes read and not yet consumed
    fs_bytes_buffer,  \* bytes_buffer
    fs_counts,        \* counts: the table's entries, <<word, count>>
    fs_calls,         \* the words passed to increment, in call order
    fs_handed,        \* history: the bytes of the chunks the loop has tokenized
    fs_ordered,       \* ordered
    fs_out,           \* lines writeln! has written to out_buffer
    fs_flushes,       \* successful out_buffer.flush() calls
    fs_ret,           \* try_main's return value
    fs_exit,          \* the process's exit status, -1 while it runs
    \* ---- fun-with-threads
    ft_pos,           \* bytes of stdin already read by the BufReader
    ft_in_buffer,     \* BufReader: bytes read and not yet consumed
    r_pc,             \* ready_bytes_buffer: position
    r_bytes_buffer,   \* ready_bytes_buffer: bytes_buffer
    r_ret,            \* ready_bytes_buffer: return value (discarded by let _)
    r_handed,         \* history: the bytes of the chunks tx1 has sent
    r_tokens,         \* history: the words of the chunks tx1 has sent
    ch1,              \* channel 1 (tx1 -> rx1): queued chunks
    w_pc,             \* ready_words: position
    w_words,          \* ready_words: words of the current chunk not yet sent
    w_ret,            \* ready_words: return value (discarded by let _)
    ch2,              \* channel 2 (tx2 -> rx2): queued words
    ft_pc,            \* main thread: position in try_main / main
    ft_counts,        \* counts
    ft_calls,         \* the words passed to increment, in call order
    ft_ordered,       \* ordered
    ft_out,           \* lines writeln! has written to out_buffer
    ft_flushes,       \* successful out_buffer.flush() calls
    ft_ret,           \* try_main's return value
    ft_exit           \* the process's exit status, -1 while it runs

fs_vars == <<fs_pc, fs_pos, fs_in_buffer, fs_bytes_buffer, fs_counts, fs_calls,
             fs_handed, fs_ordered, fs_out, fs_flushes, fs_ret, fs_exit>>
r_vars == <<ft_pos, ft_in_buffer, r_pc, r_bytes_buffer, r_ret, r_handed, r_tokens>>
w_vars == <<w_pc, w_words, w_ret>>
m_vars == <<ft_pc, ft_counts, ft_calls, ft_ordered, ft_out, ft_flushes, ft_ret, ft_exit>>
ft_vars == <<r_vars, ch1, w_vars, ch2, m_vars>>
env_vars == <<program, input, base>>
vars == <<env_vars, fs_vars, ft_vars>>

----------------------------------------------------------------------------
(* Bounds of the model *)

\* longest input fast-simple is run on alone
MaxLen == 4
\* longest input fun-with-threads is run on alone
MaxLenThreads == 5
\* longest input both programs are run on, one after the other
MaxLenBoth == 3
\* longest input of the runs of fun-with-threads under fair scheduling
MaxLenFair == 3
\* longest text that is doubled
MaxLenHalf == 5
\* most bytes one read of stdin returns: IN_BUFFER_SIZE, scaled down
MaxFill == 2

\* '\n', the delimiter of read_until
NL == 10

\* the bytes inputs are made of: \t \n space A a, and the two bytes of U+00C9
Bytes == {9, 10, 32, 65, 97, 137, 195}
\* the bytes of the inputs of the threaded runs: \n A b and a lone lead byte
ThreadBytes == {10, 65, 98, 195}

SeqsUpTo(S, n) == UNION {[1..k -> S] : k \in 0..n}

----------------------------------------------------------------------------
(* Values of Result<(), Box<dyn Error>> *)

Running == "running"
Ok == "Ok"
ErrRead == "Err(io: read)"
ErrWrite == "Err(io: write)"
ErrFlush == "Err(io: flush)"
ErrUtf8 == "Err(Utf8Error)"
ErrSend == "Err(SendError)"

----------------------------------------------------------------------------
(* Pure operations on byte sequences *)

\* u8::is_ascii_whitespace: space, \t, \n, form feed, \r
\* (variant: a delimiter set without the tab)
IsAsciiWhitespaceNoTab(b) == b \in {10, 12, 13, 32}
IsAsciiWhitespace(b) == b \in {9, 10, 12, 13, 32}

\* u8::make_ascii_lowercase on one byte
ToAsciiLowercase(b) == IF b \in 65..90 THEN b + 32 ELSE b

\* [u8]::make_ascii_lowercase on the whole buffer
\* (variant: folding the first byte of the buffer only)
MakeAsciiLowercaseFirstByte(buf) == [i \in 1..Len(buf) |-> IF i = 1 THEN ToAsciiLowercase(buf[i]) ELSE buf[i]]
MakeAsciiLowercase(buf) == [i \in 1..Len(buf) |-> ToAsciiLowercase(buf[i])]

IsCont(b) == b \in 128..191

\* std::str::from_utf8: whether the bytes are well-formed UTF-8
RECURSIVE Utf8Valid(_)
Utf8Valid(s) ==
    IF s = <<>> THEN TRUE
    ELSE LET b == s[1]
             n == Len(s)
         IN  IF b < 128 THEN Utf8Valid(Tail(s))
             ELSE IF b \in 194..223
                  THEN n >= 2 /\ IsCont(s[2]) /\ Utf8Valid(SubSeq(s, 3, n))
             ELSE IF b \in 224..239
                  THEN /\ n >= 3
                       /\ IsCont(s[2]) /\ IsCont(s[3])
                       /\ (b = 224 => s[2] >= 160)
                       /\ (b = 237 => s[2] <= 159)
                       /\ Utf8Valid(SubSeq(s, 4, n))
             ELSE IF b \in 240..244
                  THEN /\ n >= 4
                       /\ IsCont(s[2]) /\ IsCont(s[3]) /\ IsCont(s[4])
                       /\ (b = 240 => s[2] >= 144)
                       /\ (b = 244 => s[2] <= 143)
                       /\ Utf8Valid(SubSeq(s, 5, n))
             ELSE FALSE

\* slice::split(pred): the runs between separator bytes, empty runs included
RECURSIVE SplitRuns(_, _)
SplitRuns(s, cur) ==
    IF s = <<>> THEN <<cur>>
    ELSE IF IsAsciiWhitespace(s[1])
         THEN <<cur>> \o SplitRuns(Tail(s), <<>>)
         ELSE SplitRuns(Tail(s), Append(cur, s[1]))

\* str::split_ascii_whitespace: split on ASCII whitespace, keep the non-empty runs
SplitAsciiWhitespace(s) == SelectSeq(SplitRuns(s, <<>>), LAMBDA t : t # <<>>)

\* memchr(delim, available): index of the first delim, 0 when there is none
Memchr(delim, s) ==
    IF \E i \in 1..Len(s) : s[i] = delim
    THEN CHOOSE i \in 1..Len(s) : s[i] = delim /\ \A j \in 1..(i - 1) : s[j] # delim
    ELSE 0

----------------------------------------------------------------------------
(* The frequency table: hashbrown::HashMap as its list of entries *)

\* counts.get_mut(word): index of the entry with this key, 0 when absent
GetMut(counts, word) ==
    IF \E i \in 1..Len(counts) : counts[i][1] = word
    THEN CHOOSE i \in 1..Len(counts) : counts[i][1] = word
    ELSE 0

\* counts.insert_unique_unchecked(word, n): adds an entry without looking
InsertUniqueUnchecked(counts, word, n) == Append(counts, <<word, n>>)

\* increment(counts, word)
\* (variants: inserting without the lookup; finding the key without adding one)
IncrementNoLookup(counts, word) == InsertUniqueUnchecked(counts, word, 1)
IncrementNoBump(counts, word) ==
    IF GetMut(counts, word) # 0 THEN counts ELSE InsertUniqueUnchecked(counts, word, 1)
Increment(counts, word) ==
    LET i == GetMut(counts, word)
    IN  IF i # 0
        THEN [counts EXCEPT ![i] = <<word, counts[i][2] + 1>>]
        ELSE InsertUniqueUnchecked(counts, word, 1)

\* .for_each(|word| increment(&mut counts, word)) over the words of one chunk
RECURSIVE IncrementAll(_, _)
IncrementAll(counts, words) ==
    IF words = <<>> THEN counts
    ELSE IncrementAll(Increment(counts, Head(words)), Tail(words))

----------------------------------------------------------------------------
(* Sorting and formatting *)

Perms(n) == {p \in [1..n -> 1..n] : \A i, j \in 1..n : i # j => p[i] # p[j]}

\* collect() of the map's entries in its iteration order, any order, followed by
\* sort_unstable_by_key(count): every ascending arrangement of the entries
SortUnstableByKey(counts) ==
    {[i \in 1..Len(counts) |-> counts[p[i]]] : p \in
        {q \in Perms(Len(counts)) :
            \A i \in 1..(Len(counts) - 1) : counts[q[i]][2] <= counts[q[i + 1]][2]}}

\* Display of a usize: its decimal digits
RECURSIVE Decimal(_)
Decimal(n) == IF n < 10 THEN <<48 + n>> ELSE Decimal(n \div 10) \o <<48 + (n % 10)>>

\* writeln!(out_buffer, "{} {}", word, count): the bytes of one line
Line(entry) == entry[1] \o <<32>> \o Decimal(entry[2]) \o <<NL>>

----------------------------------------------------------------------------
(* The BufReader over stdin *)

Min(a, b) == IF a < b THEN a ELSE b

\* What one read(2) of stdin may return after `pos` bytes: 0 bytes at the end
\* of the stream, otherwise 1 up to a buffer's worth of the bytes that follow
ReadSizes(pos) ==
    IF pos = Len(input) THEN {0} ELSE 1..Min(MaxFill, Len(input) - pos)

\* BufReader::fill_buf: the buffered bytes; reads stdin only when none are
\* buffered.  The outcomes: the buffer's content and the new stream position
FillBuf(in_buffer, pos) ==
    IF in_buffer # <<>>
    THEN {[buf |-> in_buffer, pos |-> pos]}
    ELSE {[buf |-> SubSeq(input, pos + 1, pos + n), pos |-> pos + n] : n \in ReadSizes(pos)}

\* One turn of the loop of BufRead::read_until(b'\n', &mut bytes_buffer) on what
\* fill_buf returned: [bytes: what is appended, rest: what stays buffered,
\* done: whether read_until returns]
\* (variants: consuming all that fill_buf returned when the delimiter is found;
\* returning after one fill whether or not the delimiter was found)
ReadUntilStepConsumesAll(available) ==
    LET i == Memchr(NL, available)
    IN  IF i # 0
        THEN [bytes |-> SubSeq(available, 1, i), rest |-> <<>>, done |-> TRUE]
        ELSE [bytes |-> available, rest |-> <<>>, done |-> available = <<>>]
ReadUntilStepStopsAfterOneFill(available) ==
    LET i == Memchr(NL, available)
    IN  IF i # 0
        THEN [bytes |-> SubSeq(available, 1, i),
              rest |-> SubSeq(available, i + 1, Len(available)),
              done |-> TRUE]
        ELSE [bytes |-> available, rest |-> <<>>, done |-> TRUE]
ReadUntilStep(available) ==
    LET i == Memchr(NL, available)
    IN  IF i # 0
        THEN [bytes |-> SubSeq(available, 1, i),
              rest |-> SubSeq(available, i + 1, Len(available)),
              done |-> TRUE]
        ELSE [bytes |-> available, rest |-> <<>>, done |-> available = <<>>]

----------------------------------------------------------------------------
(* fast-simple *)

FsRuns == program \in {"fs", "both"}

\* bytes_buffer = in_buffer.fill_buf()?.to_vec(); in_buffer.consume(len)
FsFill ==
    /\ FsRuns /\ fs_pc = "fill"
    /\ \E o \in FillBuf(fs_in_buffer, fs_pos) :
        /\ fs_bytes_buffer' = o.buf
        /\ fs_in_buffer' = <<>>
        /\ fs_pos' = o.pos
    /\ fs_pc' = "read_until"
    /\ UNCHANGED <<fs_counts, fs_calls, fs_handed, fs_ordered, fs_out, fs_flushes, fs_ret, fs_exit>>
    /\ UNCHANGED <<env_vars, ft_vars>>

\* fill_buf()? when the read of stdin fails
FsFillErr ==
    /\ FsRuns /\ fs_pc = "fill" /\ fs_in_buffer = <<>>
    /\ fs_ret' = ErrRead
    /\ fs_pc' = "returned"
    /\ UNCHANGED <<fs_pos, fs_in_buffer, fs_bytes_buffer, fs_counts, fs_calls, fs_handed,
                   fs_ordered, fs_out, fs_flushes, fs_exit>>
    /\ UNCHANGED <<env_vars, ft_vars>>

\* in_buffer.read_until(b'\n', &mut bytes_buffer)?: one turn of its loop
\* (variant: read_until is not called on a buffer that ends in the delimiter)
FsReadUntilUnlessTerminated ==
    /\ FsRuns /\ fs_pc = "read_until"
    /\ \E o \in FillBuf(fs_in_buffer, fs_pos) :
        LET st == ReadUntilStep(o.buf)
            skip == fs_bytes_buffer # <<>> /\ fs_bytes_buffer[Len(fs_bytes_buffer)] = NL
        IN  /\ fs_bytes_buffer' = (IF skip THEN fs_bytes_buffer ELSE fs_bytes_buffer \o st.bytes)
            /\ fs_in_buffer' = (IF skip THEN fs_in_buffer ELSE st.rest)
            /\ fs_pos' = (IF skip THEN fs_pos ELSE o.pos)
            /\ fs_pc' = IF skip \/ st.done THEN "chunk" ELSE "read_until"
    /\ UNCHANGED <<fs_counts, fs_calls, fs_handed, fs_ordered, fs_out, fs_flushes, fs_ret, fs_exit>>
    /\ UNCHANGED <<env_vars, ft_vars>>
FsReadUntil ==
    /\ FsRuns /\ fs_pc = "read_until"
    /\ \E o \in FillBuf(fs_in_buffer, fs_pos) :
        LET st == ReadUntilStep(o.buf)
        IN  /\ fs_bytes_buffer' = fs_bytes_buffer \o st.bytes
            /\ fs_in_buffer' = st.rest
            /\ fs_pos' = o.pos
            /\ fs_pc' = IF st.done THEN "chunk" ELSE "read_until"
    /\ UNCHANGED <<fs_counts, fs_calls, fs_handed, fs_ordered, fs_out, fs_flushes, fs_ret, fs_exit>>
    /\ UNCHANGED <<env_vars, ft_vars>>

\* read_until(..)? when a read of stdin fails
FsReadUntilErr ==
    /\ FsRuns /\ fs_pc = "read_until" /\ fs_in_buffer = <<>>
    /\ fs_ret' = ErrRead
    /\ fs_pc' = "returned"
    /\ UNCHANGED <<fs_pos, fs_in_buffer, fs_bytes_buffer, fs_counts, fs_calls, fs_handed,
                   fs_ordered, fs_out, fs_flushes, fs_exit>>
    /\ UNCHANGED <<env_vars, ft_vars>>

\* if bytes_buffer.is_empty() { break; }
FsBreak ==
    /\ FsRuns /\ fs_pc = "chunk" /\ fs_bytes_buffer = <<>>
    /\ fs_pc' = "sort"
    /\ UNCHANGED <<fs_pos, fs_in_buffer, fs_bytes_buffer, fs_counts, fs_calls, fs_handed,
                   fs_ordered, fs_out, fs_flushes, fs_ret, fs_exit>>
    /\ UNCHANGED <<env_vars, ft_vars>>

\* make_ascii_lowercase; from_utf8(leaked)? on bytes that are not UTF-8
FsUtf8Err ==
    /\ FsRuns /\ fs_pc = "chunk" /\ fs_bytes_buffer # <<>>
    /\ ~Utf8Valid(MakeAsciiLowercase(fs_bytes_buffer))
    /\ fs_bytes_buffer' = MakeAsciiLowercase(fs_bytes_buffer)
    /\ fs_ret' = ErrUtf8
    /\ fs_pc' = "returned"
    /\ UNCHANGED <<fs_pos, fs_in_buffer, fs_counts, fs_calls, fs_handed,
                   fs_ordered, fs_out, fs_flushes, fs_exit>>
    /\ UNCHANGED <<env_vars, ft_vars>>

\* make_ascii_lowercase; from_utf8(leaked)?.split_ascii_whitespace()
\*     .for_each(|word| increment(&mut counts, word)); and around the loop
FsCount ==
    /\ FsRuns /\ fs_pc = "chunk" /\ fs_bytes_buffer # <<>>
    /\ Utf8Valid(MakeAsciiLowercase(fs_bytes_buffer))
    /\ LET words == SplitAsciiWhitespace(MakeAsciiLowercase(fs_bytes_buffer))
       IN  /\ fs_counts' = IncrementAll(fs_counts, words)
           /\ fs_calls' = fs_calls \o words
    /\ fs_handed' = fs_handed \o MakeAsciiLowercase(fs_bytes_buffer)
    /\ fs_bytes_buffer' = MakeAsciiLowercase(fs_bytes_buffer)
    /\ fs_pc' = "fill"
    /\ UNCHANGED <<fs_pos, fs_in_buffer, fs_ordered, fs_out, fs_flushes, fs_ret, fs_exit>>
    /\ UNCHANGED <<env_vars, ft_vars>>

\* ordered = counts.into_iter().collect(); ordered.sort_unstable_by_key(count)
FsSort ==
    /\ FsRuns /\ fs_pc = "sort"
    /\ fs_ordered' \in SortUnstableByKey(fs_counts)
    /\ fs_pc' = "emit"
    /\ UNCHANGED <<fs_pos, fs_in_buffer, fs_bytes_buffer, fs_counts, fs_calls, fs_handed,
                   fs_out, fs_flushes, fs_ret, fs_exit>>
    /\ UNCHANGED <<env_vars, ft_vars>>

\* the next entry of ordered.into_iter().rev(): the last one not yet written
\* (variant: iterating without .rev())
NextEntrySameOrder(ordered, out) == ordered[Len(out) + 1]
NextEntry(ordered, out) == ordered[Len(ordered) - Len(out)]

\* one turn of try_for_each: writeln!(out_buffer, "{} {}", word, count) succeeds
FsWrite ==
    /\ FsRuns /\ fs_pc = "emit" /\ Len(fs_out) < Len(fs_ordered)
    /\ fs_out' = Append(fs_out, Line(NextEntry(fs_ordered, fs_out)))
    /\ UNCHANGED <<fs_pc, fs_pos, fs_in_buffer, fs_bytes_buffer, fs_counts, fs_calls, fs_handed,
                   fs_ordered, fs_flushes, fs_ret, fs_exit>>
    /\ UNCHANGED <<env_vars, ft_vars>>

\* one turn of try_for_each: writeln! fails, try_for_each(..)? returns the error
\* (variant: the result of try_for_each is looked at after the flush)
FsWriteErrThenFlush ==
    /\ FsRuns /\ fs_pc = "emit" /\ Len(fs_out) < Len(fs_ordered)
    /\ fs_flushes' = fs_flushes + 1
    /\ fs_ret' = ErrWrite
    /\ fs_pc' = "returned"
    /\ UNCHANGED <<fs_pos, fs_in_buffer, fs_bytes_buffer, fs_counts, fs_calls, fs_handed,
                   fs_ordered, fs_out, fs_exit>>
    /\ UNCHANGED <<env_vars, ft_vars>>
FsWriteErr ==
    /\ FsRuns /\ fs_pc = "emit" /\ Len(fs_out) < Len(fs_ordered)
    /\ fs_ret' = ErrWrite
    /\ fs_pc' = "returned"
    /\ UNCHANGED <<fs_pos, fs_in_buffer, fs_bytes_buffer, fs_counts, fs_calls, fs_handed,
                   fs_ordered, fs_out, fs_flushes, fs_exit>>
    /\ UNCHANGED <<env_vars, ft_vars>>

\* out_buffer.flush().map_err(..) returning Ok
\* (variant: Ok(()) returned without the flush)
FsNoFlush ==
    /\ FsRuns /\ fs_pc = "emit" /\ Len(fs_out) = Len(fs_ordered)
    /\ fs_ret' = Ok
    /\ fs_pc' = "returned"
    /\ UNCHANGED <<fs_pos, fs_in_buffer, fs_bytes_buffer, fs_counts, fs_calls, fs_handed,
                   fs_ordered, fs_out, fs_flushes, fs_exit>>
    /\ UNCHANGED <<env_vars, ft_vars>>
FsFlush ==
    /\ FsRuns /\ fs_pc = "emit" /\ Len(fs_out) = Len(fs_ordered)
    /\ fs_flushes' = fs_flushes + 1
    /\ fs_ret' = Ok
    /\ fs_pc' = "returned"
    /\ UNCHANGED <<fs_pos, fs_in_buffer, fs_bytes_buffer, fs_counts, fs_calls, fs_handed,
                   fs_ordered, fs_out, fs_exit>>
    /\ UNCHANGED <<env_vars, ft_vars>>

\* out_buffer.flush().map_err(..) returning the flush's error
FsFlushErr ==
    /\ FsRuns /\ fs_pc = "emit" /\ Len(fs_out) = Len(fs_ordered)
    /\ fs_ret' = ErrFlush
    /\ fs_pc' = "returned"
    /\ UNCHANGED <<fs_pos, fs_in_buffer, fs_bytes_buffer, fs_counts, fs_calls, fs_handed,
                   fs_ordered, fs_out, fs_flushes, fs_exit>>
    /\ UNCHANGED <<env_vars, ft_vars>>

\* main: if let Err(err) = try_main() { eprintln!; exit(1) }, else status 0
\* (variant: the two arms exchanged)
ExitStatusInverted(ret) == IF ret = Ok THEN 1 ELSE 0
ExitStatus(ret) == IF ret = Ok THEN 0 ELSE 1

FsExit ==
    /\ FsRuns /\ fs_pc = "returned"
    /\ fs_exit' = ExitStatus(fs_ret)
    /\ fs_pc' = "exited"
    /\ UNCHANGED <<fs_pos, fs_in_buffer, fs_bytes_buffer, fs_counts, fs_calls, fs_handed,
                   fs_ordered, fs_out, fs_flushes, fs_ret>>
    /\ UNCHANGED <<env_vars, ft_vars>>

NextFs ==
    \/ FsFill \/ FsFillErr \/ FsReadUntil \/ FsReadUntilErr
    \/ FsBreak \/ FsUtf8Err \/ FsCount
    \/ FsSort \/ FsWrite \/ FsWriteErr \/ FsFlush \/ FsFlushErr \/ FsExit

----------------------------------------------------------------------------
(* fun-with-threads *)

\* The process runs: its threads take steps until main has exited
FtRuns ==
    /\ program = "ft" \/ (program = "both" /\ fs_pc = "exited")
    /\ ft_exit = -1

\* A channel's ends.  tx1 is owned by ready_bytes_buffer, rx1 and tx2 by
\* ready_words: each is dropped when its owner returns.  rx2 is owned by
\* try_main, which the process does not outlive.
\* (variant: try_main keeps a clone of tx1 until it returns)
Tx1KeptByMain == r_ret # Running /\ ft_ret # Running
Tx1Dropped == r_ret # Running
Rx1Dropped == w_ret # Running
\* (variant: tx2 outlives a ready_words that returned an error)
Tx2DroppedOnOk == w_ret = Ok
Tx2Dropped == w_ret # Running

\* Sender::send on an unbounded channel: the message joins the queue's end
Send(ch, msg) == Append(ch, msg)

\* Receiver::recv on a queue that is not empty: the oldest message
\* (variant: a queue served newest first)
RecvNewest(ch) == [msg |-> ch[Len(ch)], rest |-> SubSeq(ch, 1, Len(ch) - 1)]
Recv(ch) == [msg |-> Head(ch), rest |-> Tail(ch)]

\* ---- ready_bytes_buffer (the reader thread)

\* bytes_buffer = in_buffer.fill_buf()?.to_vec(); in_buffer.consume(len)
RFill ==
    /\ FtRuns /\ r_pc = "fill"
    /\ \E o \in FillBuf(ft_in_buffer, ft_pos) :
        /\ r_bytes_buffer' = o.buf
        /\ ft_in_buffer' = <<>>
        /\ ft_pos' = o.pos
    /\ r_pc' = "read_until"
    /\ UNCHANGED <<r_ret, r_handed, r_tokens, ch1, w_vars, ch2, m_vars, env_vars, fs_vars>>

\* fill_buf()? when the read of stdin fails: the thread's function returns
RFillErr ==
    /\ FtRuns /\ r_pc = "fill" /\ ft_in_buffer = <<>>
    /\ r_ret' = ErrRead
    /\ r_pc' = "returned"
    /\ UNCHANGED <<ft_pos, ft_in_buffer, r_bytes_buffer, r_handed, r_tokens, ch1, w_vars, ch2, m_vars,
                   env_vars, fs_vars>>

\* in_buffer.read_until(b'\n', &mut bytes_buffer)?: one turn of its loop
RReadUntil ==
    /\ FtRuns /\ r_pc = "read_until"
    /\ \E o \in FillBuf(ft_in_buffer, ft_pos) :
        LET st == ReadUntilStep(o.buf)
        IN  /\ r_bytes_buffer' = r_bytes_buffer \o st.bytes
            /\ ft_in_buffer' = st.rest
            /\ ft_pos' = o.pos
            /\ r_pc' = IF st.done THEN "chunk" ELSE "read_until"
    /\ UNCHANGED <<r_ret, r_handed, r_tokens, ch1, w_vars, ch2, m_vars, env_vars, fs_vars>>

\* read_until(..)? when a read of stdin fails
RReadUntilErr ==
    /\ FtRuns /\ r_pc = "read_until" /\ ft_in_buffer = <<>>
    /\ r_ret' = ErrRead
    /\ r_pc' = "returned"
    /\ UNCHANGED <<ft_pos, ft_in_buffer, r_bytes_buffer, r_handed, r_tokens, ch1, w_vars, ch2, m_vars,
                   env_vars, fs_vars>>

\* if bytes_buffer.is_empty() { break; } ... Ok(())
RBreak ==
    /\ FtRuns /\ r_pc = "chunk" /\ r_bytes_buffer = <<>>
    /\ r_ret' = Ok
    /\ r_pc' = "returned"
    /\ UNCHANGED <<ft_pos, ft_in_buffer, r_bytes_buffer, r_handed, r_tokens, ch1, w_vars, ch2, m_vars,
                   env_vars, fs_vars>>

\* bytes_buffer.make_ascii_lowercase(); tx.send(bytes_buffer)?; and around the loop
RSend ==
    /\ FtRuns /\ r_pc = "chunk" /\ r_bytes_buffer # <<>>
    /\ ~Rx1Dropped
    /\ ch1' = Send(ch1, MakeAsciiLowercase(r_bytes_buffer))
    /\ r_handed' = r_handed \o MakeAsciiLowercase(r_bytes_buffer)
    /\ r_tokens' = r_tokens \o SplitAsciiWhitespace(MakeAsciiLowercase(r_bytes_buffer))
    /\ r_bytes_buffer' = <<>>
    /\ r_pc' = "fill"
    /\ UNCHANGED <<ft_pos, ft_in_buffer, r_ret, w_vars, ch2, m_vars, env_vars, fs_vars>>

\* tx.send(bytes_buffer)? when rx1 has been dropped
RSendErr ==
    /\ FtRuns /\ r_pc = "chunk" /\ r_bytes_buffer # <<>>
    /\ Rx1Dropped
    /\ r_ret' = ErrSend
    /\ r_pc' = "returned"
    /\ UNCHANGED <<ft_pos, ft_in_buffer, r_bytes_buffer, r_handed, r_tokens, ch1, w_vars, ch2, m_vars,
                   env_vars, fs_vars>>

\* ---- ready_words (the tokenizer thread)

\* rx.recv() gives a chunk; from_utf8_mut(..)?.split_ascii_whitespace()
WRecv ==
    /\ FtRuns /\ w_pc = "recv" /\ ch1 # <<>>
    /\ Utf8Valid(Recv(ch1).msg)
    /\ ch1' = Recv(ch1).rest
    /\ w_words' = SplitAsciiWhitespace(Recv(ch1).msg)
    /\ w_pc' = IF w_words' = <<>> THEN "recv" ELSE "send"
    /\ UNCHANGED <<w_ret, r_vars, ch2, m_vars, env_vars, fs_vars>>

\* rx.recv() gives a chunk that is not UTF-8: from_utf8_mut(..)? returns the error
WUtf8Err ==
    /\ FtRuns /\ w_pc = "recv" /\ ch1 # <<>>
    /\ ~Utf8Valid(Recv(ch1).msg)
    /\ ch1' = Recv(ch1).rest
    /\ w_ret' = ErrUtf8
    /\ w_pc' = "returned"
    /\ UNCHANGED <<w_words, r_vars, ch2, m_vars, env_vars, fs_vars>>

\* rx.recv() is Err: the queue is empty and tx1 is dropped; Ok(())
WClosed ==
    /\ FtRuns /\ w_pc = "recv" /\ ch1 = <<>> /\ Tx1Dropped
    /\ w_ret' = Ok
    /\ w_pc' = "returned"
    /\ UNCHANGED <<w_words, r_vars, ch1, ch2, m_vars, env_vars, fs_vars>>

\* one turn of try_for_each(|word| tx.send(Box::from(word)))
WSend ==
    /\ FtRuns /\ w_pc = "send"
    /\ ch2' = Send(ch2, Head(w_words))
    /\ w_words' = Tail(w_words)
    /\ w_pc' = IF w_words' = <<>> THEN "recv" ELSE "send"
    /\ UNCHANGED <<w_ret, r_vars, ch1, m_vars, env_vars, fs_vars>>

\* ---- try_main and main (the main thread)

\* while let Ok(word) = rx2.recv() { increment(&mut counts, word); }
MRecv ==
    /\ FtRuns /\ ft_pc = "recv" /\ ch2 # <<>>
    /\ ch2' = Recv(ch2).rest
    /\ ft_counts' = Increment(ft_counts, Recv(ch2).msg)
    /\ ft_calls' = Append(ft_calls, Recv(ch2).msg)
    /\ UNCHANGED <<ft_pc, ft_ordered, ft_out, ft_flushes, ft_ret, ft_exit>>
    /\ UNCHANGED <<r_vars, ch1, w_vars, env_vars, fs_vars>>

\* rx2.recv() is Err: the queue is empty and tx2 is dropped; the loop ends
\* (variant: try_recv, which is Err on any empty queue)
MClosedOnEmpty ==
    /\ FtRuns /\ ft_pc = "recv" /\ ch2 = <<>>
    /\ ft_pc' = "sort"
    /\ UNCHANGED <<ft_counts, ft_calls, ft_ordered, ft_out, ft_flushes, ft_ret, ft_exit>>
    /\ UNCHANGED <<r_vars, ch1, w_vars, ch2, env_vars, fs_vars>>
MClosed ==
    /\ FtRuns /\ ft_pc = "recv" /\ ch2 = <<>> /\ Tx2Dropped
    /\ ft_pc' = "sort"
    /\ UNCHANGED <<ft_counts, ft_calls, ft_ordered, ft_out, ft_flushes, ft_ret, ft_exit>>
    /\ UNCHANGED <<r_vars, ch1, w_vars, ch2, env_vars, fs_vars>>

\* ordered = counts.into_iter().collect(); ordered.sort_unstable_by_key(count)
MSort ==
    /\ FtRuns /\ ft_pc = "sort"
    /\ ft_ordered' \in SortUnstableByKey(ft_counts)
    /\ ft_pc' = "emit"
    /\ UNCHANGED <<ft_counts, ft_calls, ft_out, ft_flushes, ft_ret, ft_exit>>
    /\ UNCHANGED <<r_vars, ch1, w_vars, ch2, env_vars, fs_vars>>

\* one turn of try_for_each: writeln!(out_buffer, "{} {}", word, count) succeeds
MWrite ==
    /\ FtRuns /\ ft_pc = "emit" /\ Len(ft_out) < Len(ft_ordered)
    /\ ft_out' = Append(ft_out, Line(NextEntry(ft_ordered, ft_out)))
    /\ UNCHANGED <<ft_pc, ft_counts, ft_calls, ft_ordered, ft_flushes, ft_ret, ft_exit>>
    /\ UNCHANGED <<r_vars, ch1, w_vars, ch2, env_vars, fs_vars>>

\* one turn of try_for_each: writeln! fails; Err(err) => Err(err.into())
MWriteErr ==
    /\ FtRuns /\ ft_pc = "emit" /\ Len(ft_out) < Len(ft_ordered)
    /\ ft_ret' = ErrWrite
    /\ ft_pc' = "returned"
    /\ UNCHANGED <<ft_counts, ft_calls, ft_ordered, ft_out, ft_flushes, ft_exit>>
    /\ UNCHANGED <<r_vars, ch1, w_vars, ch2, env_vars, fs_vars>>

\* Ok(_) => { out_buffer.flush()?; Ok(()) }
MFlush ==
    /\ FtRuns /\ ft_pc = "emit" /\ Len(ft_out) = Len(ft_ordered)
    /\ ft_flushes' = ft_flushes + 1
    /\ ft_ret' = Ok
    /\ ft_pc' = "returned"
    /\ UNCHANGED <<ft_counts, ft_calls, ft_ordered, ft_out, ft_exit>>
    /\ UNCHANGED <<r_vars, ch1, w_vars, ch2, env_vars, fs_vars>>

\* out_buffer.flush()? returning the flush's error
MFlushErr ==
    /\ FtRuns /\ ft_pc = "emit" /\ Len(ft_out) = Len(ft_ordered)
    /\ ft_ret' = ErrFlush
    /\ ft_pc' = "returned"
    /\ UNCHANGED <<ft_counts, ft_calls, ft_ordered, ft_out, ft_flushes, ft_exit>>
    /\ UNCHANGED <<r_vars, ch1, w_vars, ch2, env_vars, fs_vars>>

\* main: if let Err(err) = try_main() { eprintln!; exit(1) }, else status 0
MExit ==
    /\ FtRuns /\ ft_pc = "returned"
    /\ ft_exit' = ExitStatus(ft_ret)
    /\ ft_pc' = "exited"
    /\ UNCHANGED <<ft_counts, ft_calls, ft_ordered, ft_out, ft_flushes, ft_ret>>
    /\ UNCHANGED <<r_vars, ch1, w_vars, ch2, env_vars, fs_vars>>

NextFt ==
    \/ RFill \/ RFillErr \/ RReadUntil \/ RReadUntilErr \/ RBreak \/ RSend \/ RSendErr
    \/ WRecv \/ WUtf8Err \/ WClosed \/ WSend
    \/ MRecv \/ MClosed \/ MSort \/ MWrite \/ MWriteErr \/ MFlush \/ MFlushErr \/ MExit

----------------------------------------------------------------------------
(* Initial states and specifications *)

\* Both processes as they start on stdin delivering `inp`
Start(prog, inp, half) ==
    /\ program = prog /\ input = inp /\ base = half
    /\ fs_pc = "fill" /\ fs_pos = 0 /\ fs_in_buffer = <<>> /\ fs_bytes_buffer = <<>>
    /\ fs_counts = <<>> /\ fs_calls = <<>> /\ fs_handed = <<>>
    /\ fs_ordered = <<>> /\ fs_out = <<>>
    /\ fs_flushes = 0 /\ fs_ret = Running /\ fs_exit = -1
    /\ ft_pos = 0 /\ ft_in_buffer = <<>>
    /\ r_pc = "fill" /\ r_bytes_buffer = <<>> /\ r_ret = Running
    /\ r_handed = <<>> /\ r_tokens = <<>>
    /\ ch1 = <<>>
    /\ w_pc = "recv" /\ w_words = <<>> /\ w_ret = Running
    /\ ch2 = <<>>
    /\ ft_pc = "recv" /\ ft_counts = <<>> /\ ft_calls = <<>> /\ ft_ordered = <<>>
    /\ ft_out = <<>> /\ ft_flushes = 0 /\ ft_ret = Running /\ ft_exit = -1

\* "The The the" and "a\t\tb\n\nc", and "x\r\ny" with its carriage return
ExampleInputs ==
    { <<84, 104, 101, 32, 84, 104, 101, 32, 116, 104, 101>>,
      <<97, 9, 9, 98, 10, 10, 99>>,
      <<120, 13, 10, 121>> }

\* One of the two programs, on any input
Init ==
    \/ \E inp \in SeqsUpTo(Bytes, MaxLen) \cup ExampleInputs : Start("fs", inp, inp)
    \/ \E inp \in SeqsUpTo(ThreadBytes, MaxLenThreads) \cup ExampleInputs : Start("ft", inp, inp)

Next == NextFs \/ NextFt

Spec == Init /\ [][Next]_vars

\* fast-simple, then fun-with-threads, on the same input
InitBoth == \E inp \in SeqsUpTo(ThreadBytes, MaxLenBoth) : Start("both", inp, inp)

SpecBoth == InitBoth /\ [][Next]_vars

\* The steps of each thread of fun-with-threads: the closure given to the first
\* thread::spawn, the one given to the second, and the main thread
ReaderThread == RFill \/ RFillErr \/ RReadUntil \/ RReadUntilErr \/ RBreak \/ RSend \/ RSendErr
TokenizerThread == WRecv \/ WUtf8Err \/ WClosed \/ WSend
MainThread == MRecv \/ MClosed \/ MSort \/ MWrite \/ MWriteErr \/ MFlush \/ MFlushErr \/ MExit

InitFair == \E inp \in SeqsUpTo(ThreadBytes, MaxLenFair) : Start("ft", inp, inp)

\* fun-with-threads with its three threads scheduled fairly: a thread that can
\* take a step (it is not blocked in recv, and a read of stdin returns) takes one
SpecFair ==
    /\ InitFair /\ [][NextFt]_vars
    /\ WF_vars(ReaderThread) /\ WF_vars(TokenizerThread) /\ WF_vars(MainThread)

\* the bytes of the texts that are doubled: \n space a b and a lone lead byte
DoubleBytes == {10, 32, 97, 98, 195}

\* fast-simple on a text followed by itself, with nothing, a space or a
\* newline between the two copies
InitDouble ==
    \E half \in SeqsUpTo(DoubleBytes, MaxLenHalf), sep \in {<<>>, <<32>>, <<NL>>} :
        Start("fs", half \o sep \o half, half)

SpecDouble == InitDouble /\ [][NextFs]_vars

\* the words x, y, z and the counts a table of the emitter's runs gives them
EmitWords == {<<120>>, <<121>>, <<122>>}
EmitCounts == {0, 1, 5, 9}

\* the words of a text in which x, y and z occur c[x], c[y] and c[z] times
EmitCalls(c) ==
    [i \in 1..(c[<<120>>] + c[<<121>>] + c[<<122>>]) |->
        IF i <= c[<<120>>] THEN <<120>>
        ELSE IF i <= c[<<120>>] + c[<<121>>] THEN <<121>> ELSE <<122>>]

\* that text: a word per line
EmitText(c) ==
    [i \in 1..(2 * Len(EmitCalls(c))) |->
        IF i % 2 = 0 THEN NL ELSE EmitCalls(c)[(i + 1) \div 2][1]]

\* the table increment has built from those words
EmitTable(c) ==
    SelectSeq(<< <<<<120>>, c[<<120>>]>>, <<<<121>>, c[<<121>>]>>, <<<<122>>, c[<<122>>]>> >>,
              LAMBDA e : e[2] > 0)

\* Either program where its read loop has ended on a text with these words and
\* this table: the stream is consumed, every word is counted, the threads have
\* returned
AtSort(prog, inp, words, table) ==
    LET isFs == prog = "fs"
    IN  /\ program = prog /\ input = inp /\ base = inp
        /\ fs_pc = (IF isFs THEN "sort" ELSE "fill")
        /\ fs_pos = (IF isFs THEN Len(inp) ELSE 0)
        /\ fs_in_buffer = <<>> /\ fs_bytes_buffer = <<>>
        /\ fs_counts = (IF isFs THEN table ELSE <<>>)
        /\ fs_calls = (IF isFs THEN words ELSE <<>>)
        /\ fs_handed = (IF isFs THEN inp ELSE <<>>)
        /\ fs_ordered = <<>> /\ fs_out = <<>>
        /\ fs_flushes = 0 /\ fs_ret = Running /\ fs_exit = -1
        /\ ft_pos = (IF isFs THEN 0 ELSE Len(inp))
        /\ ft_in_buffer = <<>> /\ r_bytes_buffer = <<>>
        /\ r_pc = (IF isFs THEN "fill" ELSE "returned")
        /\ r_ret = (IF isFs THEN Running ELSE Ok)
        /\ r_handed = (IF isFs THEN <<>> ELSE inp)
        /\ r_tokens = (IF isFs THEN <<>> ELSE words)
        /\ ch1 = <<>>
        /\ w_pc = (IF isFs THEN "recv" ELSE "returned")
        /\ w_words = <<>>
        /\ w_ret = (IF isFs THEN Running ELSE Ok)
        /\ ch2 = <<>>
        /\ ft_pc = (IF isFs THEN "recv" ELSE "sort")
        /\ ft_counts = (IF isFs THEN <<>> ELSE table)
        /\ ft_calls = (IF isFs THEN <<>> ELSE words)
        /\ ft_ordered = <<>> /\ ft_out = <<>>
        /\ ft_flushes = 0 /\ ft_ret = Running /\ ft_exit = -1

InitEmit ==
    \E c \in [EmitWords -> EmitCounts], prog \in {"fs", "ft"} :
        AtSort(prog, EmitText(c), EmitCalls(c), EmitTable(c))

NextEmit ==
    \/ FsSort \/ FsWrite \/ FsWriteErr \/ FsFlush \/ FsFlushErr \/ FsExit
    \/ MSort \/ MWrite \/ MWriteErr \/ MFlush \/ MFlushErr \/ MExit

\* the sorter and emitter of both programs, on tables of up to three words
SpecEmit == InitEmit /\ [][NextEmit]_vars

----------------------------------------------------------------------------
(* What the properties are stated with *)

Range(seq) == {seq[i] : i \in 1..Len(seq)}

IsPrefix(s, t) == Len(s) <= Len(t) /\ SubSeq(t, 1, Len(s)) = s

\* how often word w occurs in a sequence of words
Occurrences(words, w) == Cardinality({i \in 1..Len(words) : words[i] = w})

\* the count the table reports for w: the counts of its entries for w, added up
RECURSIVE CountIn(_, _)
CountIn(table, w) ==
    IF table = <<>> THEN 0
    ELSE (IF Head(table)[1] = w THEN Head(table)[2] ELSE 0) + CountIn(Tail(table), w)

Keys(table) == {table[i][1] : i \in 1..Len(table)}

\* the table holds exactly the counts of the words of a sequence
SameCounts(table, words) ==
    \A w \in Keys(table) \cup Range(words) : CountIn(table, w) = Occurrences(words, w)

\* the words of a text tokenized whole, in one pass
WholeWords(text) == SplitAsciiWhitespace(MakeAsciiLowercase(text))

\* the part of stdin a program has taken into chunks so far
Consumed(pos, in_buffer) == SubSeq(input, 1, pos - Len(in_buffer))

\* the read loop has ended by its break: try_main is at or past the sort
FsLoopDone ==
    \/ fs_pc \in {"sort", "emit"}
    \/ fs_pc \in {"returned", "exited"} /\ fs_ret \in {Ok, ErrWrite, ErrFlush}
FtLoopDone == ft_pc \in {"sort", "emit", "returned", "exited"}
\* no thread of fun-with-threads has stopped on an error
FtNoStageFailure == r_ret \in {Running, Ok} /\ w_ret \in {Running, Ok}

\* the (word, count) lines a run has written
Lines(out) == Range(out)

----------------------------------------------------------------------------
(* C1 *)

\* C1 (boundary safety): whatever the sizes of the reads, the counts of the
\* chunked loop are those of the whole input tokenized in one pass: in
\* fast-simple between two chunks for the input taken so far and at the end of
\* the loop for all of it, in fun-with-threads at the end of main's loop when
\* no stage failed.
C1_BoundarySafety ==
    /\ fs_pc = "fill" => SameCounts(fs_counts, WholeWords(Consumed(fs_pos, fs_in_buffer)))
    /\ FsLoopDone => SameCounts(fs_counts, WholeWords(input))
    /\ (FtLoopDone /\ FtNoStageFailure) => SameCounts(ft_counts, WholeWords(input))

\* a two-byte word and a second word on the next line, read in two chunks
C1_Witness ==
    /\ fs_pc = "sort"
    /\ Len(input) = 4 /\ input[3] = NL
    /\ Len(fs_calls) = 2 /\ Len(fs_calls[1]) = 2

----------------------------------------------------------------------------
(* C2 *)

\* C2 (pipeline equivalence): run on the same input, with no read, write or
\* flush error injected in either run, the two programs have written the same
\* set of "<word> <count>" lines when both have exited.
C2_PipelineEquivalence ==
    (/\ fs_pc = "exited" /\ ft_pc = "exited"
     /\ fs_ret \notin {ErrRead, ErrWrite, ErrFlush}
     /\ ft_ret \notin {ErrRead, ErrWrite, ErrFlush}
     /\ r_ret # ErrRead)
        => Lines(fs_out) = Lines(ft_out)

----------------------------------------------------------------------------
(* C3 *)

\* C3 (failure propagation): a process that has exited with status 0 met no
\* read error, no write or flush error and no chunk that is not UTF-8.
C3_FailurePropagation ==
    /\ fs_exit = 0 => fs_ret \notin {ErrRead, ErrUtf8, ErrWrite, ErrFlush}
    /\ ft_exit = 0 =>
        /\ ft_ret \notin {ErrRead, ErrUtf8, ErrWrite, ErrFlush}
        /\ r_ret # ErrRead
        /\ w_ret # ErrUtf8

----------------------------------------------------------------------------
(* C4 *)

\* C4 (output only after full consumption): when a line has been written, the
\* input has been read to its end and taken into chunks, and the run has met no
\* read failure and no encoding failure.
C4_OutputAfterConsumption ==
    /\ fs_out # <<>> =>
        /\ fs_pos = Len(input) /\ fs_in_buffer = <<>>
        /\ fs_ret \notin {ErrRead, ErrUtf8}
    /\ ft_out # <<>> =>
        /\ ft_pos = Len(input) /\ ft_in_buffer = <<>>
        /\ r_ret # ErrRead /\ w_ret # ErrUtf8

----------------------------------------------------------------------------
(* C5 *)

\* the words of the chunks queued in channel 1, in queue order
RECURSIVE WordsOfChunks(_)
WordsOfChunks(chunks) ==
    IF chunks = <<>> THEN <<>>
    ELSE SplitAsciiWhitespace(Head(chunks)) \o WordsOfChunks(Tail(chunks))

\* C5 (pipeline ordering): at every moment the words main has passed to
\* increment, followed by the words queued in channel 2 and those ready_words
\* has still to send, are a prefix of the words of the lowercased input in
\* stream order; while ready_words has not failed, so are they followed by the
\* words of the chunks queued in channel 1; and when main's loop ends with no
\* stage failed, every word of the input has been passed to increment.
C5_PipelineOrdering ==
    /\ IsPrefix(ft_calls \o ch2 \o w_words, WholeWords(input))
    /\ w_ret # ErrUtf8 =>
        IsPrefix(ft_calls \o ch2 \o w_words \o WordsOfChunks(ch1), WholeWords(input))
    /\ (FtLoopDone /\ FtNoStageFailure) => ft_calls = WholeWords(input)

\* main has counted a word while a different one waits behind it in channel 2
C5_Witness ==
    /\ Len(ft_calls) >= 1 /\ Len(ch2) >= 2
    /\ ch2[1] # ch2[2]

----------------------------------------------------------------------------
(* C6 *)

\* reading a line "<word> <count>\n" back: the place of its last space, the
\* word before it, the number after it
LastSpace(line) ==
    IF \E i \in 1..Len(line) : line[i] = 32
    THEN CHOOSE i \in 1..Len(line) : line[i] = 32 /\ \A j \in (i + 1)..Len(line) : line[j] # 32
    ELSE 0
RECURSIVE ParseDecimal(_)
ParseDecimal(digits) ==
    IF digits = <<>> THEN 0
    ELSE 10 * ParseDecimal(SubSeq(digits, 1, Len(digits) - 1)) + (digits[Len(digits)] - 48)
LineWord(line) == SubSeq(line, 1, LastSpace(line) - 1)
LineDigits(line) == SubSeq(line, LastSpace(line) + 1, Len(line) - 1)
LineCount(line) == ParseDecimal(LineDigits(line))
WellFormedLine(line) ==
    /\ Len(line) >= 4 /\ line[Len(line)] = NL
    /\ LastSpace(line) \in 2..(Len(line) - 2)
    /\ \A i \in 1..Len(LineDigits(line)) : LineDigits(line)[i] \in 48..57

\* the emitted lines are right for the table: every line is "<word> <count>\n"
\* for an entry of the table, no word has two lines, the counts never increase
\* from one line to the next, and once all lines are written there is one for
\* every entry
EmittedRight(out, counts, complete) ==
    /\ \A i \in 1..Len(out) :
        WellFormedLine(out[i]) /\ <<LineWord(out[i]), LineCount(out[i])>> \in Range(counts)
    /\ \A i, j \in 1..Len(out) : i # j => LineWord(out[i]) # LineWord(out[j])
    /\ \A i, j \in 1..Len(out) : i < j => LineCount(out[i]) >= LineCount(out[j])
    /\ complete =>
        /\ Len(out) = Len(counts)
        /\ {<<LineWord(out[i]), LineCount(out[i])>> : i \in 1..Len(out)} = Range(counts)

\* C6 (descending order): in both programs the emitter writes one line
\* "<word> <count>" per distinct word of the table, and the counts of the
\* lines written are non-increasing from the first line to the last.
C6_DescendingOrder ==
    /\ EmittedRight(fs_out, fs_counts, fs_ret \in {Ok, ErrFlush})
    /\ EmittedRight(ft_out, ft_counts, ft_ret \in {Ok, ErrFlush})

\* counts x:5, y:9, z:1 emitted as "y 9", "x 5", "z 1"
C6_Witness ==
    /\ Range(fs_counts) = {<<<<120>>, 5>>, <<<<121>>, 9>>, <<<<122>>, 1>>}
    /\ fs_out = << <<121, 32, 57, NL>>, <<120, 32, 53, NL>>, <<122, 32, 49, NL>> >>
    /\ fs_ret = Ok

----------------------------------------------------------------------------
(* C7 *)

RECURSIVE SumCounts(_)
SumCounts(table) == IF table = <<>> THEN 0 ELSE Head(table)[2] + SumCounts(Tail(table))

\* a table after the increment calls `calls`: no key twice, every count at
\* least 1, every word's count the number of calls made with it, every word
\* called with present, the counts adding up to the number of calls
TableRight(table, calls) ==
    /\ \A i, j \in 1..Len(table) : i # j => table[i][1] # table[j][1]
    /\ \A i \in 1..Len(table) :
        table[i][2] >= 1 /\ table[i][2] = Occurrences(calls, table[i][1])
    /\ Range(calls) \subseteq Keys(table)
    /\ SumCounts(table) = Len(calls)

\* C7 (frequency table invariant): after any sequence of increment calls the
\* keys are pairwise distinct, every count is at least 1 and is the number of
\* calls made with its word, and the counts add up to the number of calls; so
\* the unchecked insert has only ever been made for a key that was absent.
C7_TableInvariant ==
    /\ TableRight(fs_counts, fs_calls)
    /\ TableRight(ft_counts, ft_calls)

\* a table in which increment has found a key again
C7_Witness == \E i \in 1..Len(ft_counts) : ft_counts[i][2] >= 2 /\ Len(ft_counts) >= 2

----------------------------------------------------------------------------
(* C8 *)

\* ASCII case folding of a word, byte by byte
Folded(t) == [i \in 1..Len(t) |-> IF t[i] \in 65..90 THEN t[i] + 32 ELSE t[i]]

\* how many words of the text as given, in any case, fold to w
FoldingTo(text, w) ==
    LET raw == SplitAsciiWhitespace(text)
    IN  Cardinality({i \in 1..Len(raw) : Folded(raw[i]) = w})

CaseFolded(table, calls, done) ==
    /\ \A i \in 1..Len(calls) : \A k \in 1..Len(calls[i]) : calls[i][k] \notin 65..90
    /\ done =>
        \A w \in Keys(table) \cup {Folded(t) : t \in Range(SplitAsciiWhitespace(input))} :
            CountIn(table, w) = FoldingTo(input, w)

\* C8 (case folding): no word passed to increment holds an ASCII uppercase
\* byte, and when the loop has ended every word is counted under its folded
\* form: words differing only in ASCII case share one key, and bytes outside
\* ASCII are counted as they were given.
C8_CaseFolding ==
    /\ CaseFolded(fs_counts, fs_calls, FsLoopDone)
    /\ CaseFolded(ft_counts, ft_calls, FtLoopDone /\ FtNoStageFailure)

\* "The The the" in both programs: three spellings counted under the one key
\* "the"
C8_Witness ==
    /\ input = <<84, 104, 101, 32, 84, 104, 101, 32, 116, 104, 101>>
    /\ \/ FsLoopDone /\ fs_counts = << <<<<116, 104, 101>>, 3>> >>
       \/ FtLoopDone /\ FtNoStageFailure /\ ft_counts = << <<<<116, 104, 101>>, 3>> >>

----------------------------------------------------------------------------
(* C9 *)

Whitespace == {9, 10, 12, 13, 32}

\* the text with every run of whitespace made one space and none at its ends
RECURSIVE Squeeze(_, _)
Squeeze(text, pending) ==
    IF text = <<>> THEN <<>>
    ELSE IF Head(text) \in Whitespace THEN Squeeze(Tail(text), TRUE)
         ELSE (IF pending THEN <<32>> ELSE <<>>) \o <<Head(text)>> \o Squeeze(Tail(text), FALSE)
LeadingSpace(text) == text # <<>> /\ Head(text) \in Whitespace
Squeezed(text) ==
    LET sq == Squeeze(text, FALSE)
    IN  IF LeadingSpace(text) /\ sq # <<>> THEN Tail(sq) ELSE sq

Delimited(table, calls, done) ==
    /\ \A i \in 1..Len(calls) :
        calls[i] # <<>> /\ \A k \in 1..Len(calls[i]) : calls[i][k] \notin Whitespace
    /\ done => SameCounts(table, WholeWords(Squeezed(input)))

\* C9 (whitespace variety): no word passed to increment is empty or holds a
\* tab, newline, carriage return, form feed or space, and when the loop has
\* ended the counts are those of the text with every run of whitespace replaced
\* by one space and the whitespace at its ends removed.
C9_WhitespaceVariety ==
    /\ Delimited(fs_counts, fs_calls, FsLoopDone)
    /\ Delimited(ft_counts, ft_calls, FtLoopDone /\ FtNoStageFailure)

\* "a\t\tb\n\nc": three words, each counted once, between runs of tabs and
\* of newlines
C9_Witness ==
    /\ input = <<97, 9, 9, 98, 10, 10, 99>>
    /\ FsLoopDone
    /\ Range(fs_counts) = {<<<<97>>, 1>>, <<<<98>>, 1>>, <<<<99>>, 1>>}

----------------------------------------------------------------------------
(* C10 *)

\* every count is twice the count of the word in the text that was doubled
Doubled(table) ==
    \A w \in Keys(table) \cup Range(WholeWords(base)) :
        CountIn(table, w) = 2 * Occurrences(WholeWords(base), w)

\* C10 as stated (doubling): the counts of a text concatenated with itself are
\* twice the counts of the text.
C10_DoublingAsStated ==
    (FsLoopDone /\ input = base \o base) => Doubled(fs_counts)

EndsInWhitespace(text) == text # <<>> /\ text[Len(text)] \in Whitespace

\* C10 as amended: the counts of a text followed by itself are twice the counts
\* of the text when a whitespace byte stands between the two copies, as in
\* "a b a a b a", or when the text is empty, begins or ends with whitespace.
C10_Doubling ==
    (/\ FsLoopDone
     /\ \/ \E b \in Whitespace : input = base \o <<b>> \o base
        \/ /\ input = base \o base
           /\ base = <<>> \/ LeadingSpace(base) \/ EndsInWhitespace(base))
        => Doubled(fs_counts)

\* "a b a" doubled as "a b a a b a": a:4, b:2
C10_Witness ==
    /\ FsLoopDone
    /\ base = <<97, 32, 98, 32, 97>> /\ input = base \o <<32>> \o base
    /\ Range(fs_counts) = {<<<<97>>, 4>>, <<<<98>>, 2>>}

----------------------------------------------------------------------------
(* C11 *)

\* C11 (empty input): on an input of zero bytes neither program ever holds a
\* chunk, counts a word or writes a line; and a run that met no read error and
\* no flush error has flushed once, returned Ok and exited with status 0, the
\* threads of fun-with-threads having returned Ok at the end of the stream.
C11_EmptyInput ==
    input = <<>> =>
        /\ fs_handed = <<>> /\ fs_counts = <<>> /\ fs_ordered = <<>> /\ fs_out = <<>>
        /\ r_handed = <<>> /\ ch1 = <<>> /\ ch2 = <<>>
        /\ ft_counts = <<>> /\ ft_ordered = <<>> /\ ft_out = <<>>
        /\ (fs_pc = "exited" /\ fs_ret \notin {ErrRead, ErrFlush}) =>
            fs_ret = Ok /\ fs_flushes = 1 /\ fs_exit = 0
        /\ (ft_pc = "exited" /\ r_ret # ErrRead /\ ft_ret # ErrFlush) =>
            /\ r_ret = Ok /\ w_ret = Ok
            /\ ft_ret = Ok /\ ft_flushes = 1 /\ ft_exit = 0

\* fun-with-threads has exited with status 0 on the empty input, its reader
\* having broken out of its loop on the first turn
C11_Witness ==
    /\ input = <<>> /\ program = "ft"
    /\ r_ret = Ok /\ ft_flushes = 1 /\ ft_exit = 0 /\ ft_out = <<>>

----------------------------------------------------------------------------
(* C12 *)

\* C12 (pipeline termination): under fair scheduling of the three threads,
\* every run of fun-with-threads in which no stage fails comes to a state
\* where ready_bytes_buffer has returned Ok at the end of the stream, ready_words
\* has returned Ok on its closed and drained channel, both channels are empty
\* and the main thread has left its receive loop for the sort.
C12_PipelineTermination ==
    \/ <>(~FtNoStageFailure)
    \/ <>(r_ret = Ok /\ w_ret = Ok /\ ch1 = <<>> /\ ch2 = <<>> /\ FtLoopDone)

\* the three threads have wound down after two words went through the pipeline
C12_Witness ==
    /\ r_ret = Ok /\ w_ret = Ok /\ ft_pc = "sort"
    /\ Len(ft_calls) >= 2 /\ ft_calls = r_tokens

----------------------------------------------------------------------------
(* C13 *)

\* C13 (no token lost at shutdown): ready_words returns Ok from its receive
\* loop only in a step taken with channel 1 empty and tx1 dropped; the main
\* thread leaves its receive loop only in a step taken with channel 2 empty and
\* tx2 dropped; and when the main thread is at the sort with no stage failed,
\* the words passed to increment are the words of every chunk the reader sent,
\* in order, and nothing is queued in either channel or held by ready_words.
C13_NoTokenLost ==
    /\ [][(w_pc = "recv" /\ w_ret' = Ok) => (ch1 = <<>> /\ Tx1Dropped)]_vars
    /\ [][(ft_pc = "recv" /\ ft_pc' # "recv") => (ch2 = <<>> /\ Tx2Dropped)]_vars
    /\ []((ft_pc = "sort" /\ FtNoStageFailure) =>
            /\ ft_calls = r_tokens
            /\ ch1 = <<>> /\ ch2 = <<>> /\ w_words = <<>>)

\* the main thread at the sort after three words, all of them counted
C13_Witness ==
    /\ ft_pc = "sort" /\ FtNoStageFailure
    /\ Len(r_tokens) = 3 /\ Len(ft_calls) = 3
    /\ ch1 = <<>> /\ ch2 = <<>>

----------------------------------------------------------------------------
(* C14 *)

\* a stage that has returned puts nothing more into its channel
NoFurtherValues ==
    /\ [][r_ret # Running => Len(ch1') <= Len(ch1)]_vars
    /\ [][w_ret # Running => Len(ch2') <= Len(ch2)]_vars

\* C14 as stated (silent stage failure is seen as closure): once the reader has
\* stopped on a read error or the tokenizer on a chunk that is not UTF-8, the
\* failed stage sends nothing more, each of the other two threads leaves its
\* loop, and the main thread reaches the sort.
C14_AsStated ==
    /\ NoFurtherValues
    /\ (r_ret = ErrRead) ~> (w_ret # Running /\ FtLoopDone)
    /\ (w_ret = ErrUtf8) ~> (r_ret # Running /\ FtLoopDone)

\* C14 as amended: the failed stage sends nothing more; after a read error the
\* tokenizer returns and the main thread reaches the sort; after a chunk that
\* is not UTF-8 the main thread reaches the sort, and the reader, which never
\* waits on a channel, returns a SendError from its next send, unless it
\* returns at the end of the stream or on a read error first, or the process
\* exits first.
C14_SilentFailure ==
    /\ NoFurtherValues
    /\ [][(Rx1Dropped /\ r_pc = "chunk" /\ r_bytes_buffer # <<>> /\ r_pc' # r_pc)
            => r_ret' = ErrSend]_vars
    /\ (r_ret = ErrRead) ~> (w_ret # Running /\ FtLoopDone)
    /\ (w_ret = ErrUtf8) ~> FtLoopDone
    /\ (w_ret = ErrUtf8) ~> (r_ret # Running \/ ft_pc = "exited")

\* the tokenizer has stopped on a chunk that is not UTF-8, the reader on the
\* send that followed, and the main thread is at the sort
C14_Witness ==
    /\ w_ret = ErrUtf8 /\ r_ret = ErrSend /\ ft_pc = "sort"

----------------------------------------------------------------------------
(* C15 *)

Last(seq) == seq[Len(seq)]

\* the stream has been read to its end and nothing is left in the BufReader
AtEndOfStream(pos, in_buffer) == pos = Len(input) /\ in_buffer = <<>>

\* C15 (chunk boundary invariant): a chunk that has passed the is_empty test
\* ends with '\n' or was cut by the end of the stream; every chunk queued in
\* channel 1 is non-empty and ends with '\n', but for the newest one when the
\* stream has ended; and the words counted, or sent on, chunk by chunk are the
\* words of the chunks' bytes taken as one text: no word spans two chunks.
C15_ChunkBoundary ==
    /\ (fs_pc = "chunk" /\ fs_bytes_buffer # <<>>) =>
        (Last(fs_bytes_buffer) = NL \/ AtEndOfStream(fs_pos, fs_in_buffer))
    /\ (r_pc = "chunk" /\ r_bytes_buffer # <<>>) =>
        (Last(r_bytes_buffer) = NL \/ AtEndOfStream(ft_pos, ft_in_buffer))
    /\ \A i \in 1..Len(ch1) :
        /\ ch1[i] # <<>>
        /\ \/ Last(ch1[i]) = NL
           \/ i = Len(ch1) /\ AtEndOfStream(ft_pos, ft_in_buffer) /\ r_bytes_buffer = <<>>
    /\ fs_calls = SplitAsciiWhitespace(fs_handed)
    /\ r_tokens = SplitAsciiWhitespace(r_handed)

\* a chunk ending in '\n' has been tokenized and the next one, cut by the end
\* of the stream in the middle of a line, has passed the is_empty test
C15_Witness ==
    /\ fs_pc = "chunk" /\ fs_handed # <<>> /\ Last(fs_handed) = NL
    /\ fs_bytes_buffer # <<>> /\ Last(fs_bytes_buffer) \notin Whitespace

----------------------------------------------------------------------------
(* C16 *)

RECURSIVE Flatten(_)
Flatten(chunks) == IF chunks = <<>> THEN <<>> ELSE Head(chunks) \o Flatten(Tail(chunks))

IsSuffix(s, t) == Len(s) <= Len(t) /\ SubSeq(t, Len(t) - Len(s) + 1, Len(t)) = s

\* C16 (byte conservation in the reader): the chunks handed on, one after the
\* other, followed by the chunk being built, are the lowercased bytes of stdin
\* taken out of the BufReader so far: none dropped, repeated or out of place;
\* the chunks queued in channel 1 are the newest of them, in order; and the
\* loop ends by its break only with the stream at its end and every byte of
\* it handed on.
C16_ByteConservation ==
    /\ fs_pc = "fill" =>
        fs_handed = MakeAsciiLowercase(Consumed(fs_pos, fs_in_buffer))
    /\ fs_pc \in {"read_until", "chunk"} =>
        fs_handed \o MakeAsciiLowercase(fs_bytes_buffer)
            = MakeAsciiLowercase(Consumed(fs_pos, fs_in_buffer))
    /\ FsLoopDone =>
        AtEndOfStream(fs_pos, fs_in_buffer) /\ fs_handed = MakeAsciiLowercase(input)
    /\ r_handed \o MakeAsciiLowercase(r_bytes_buffer)
            = MakeAsciiLowercase(Consumed(ft_pos, ft_in_buffer))
    /\ IsSuffix(Flatten(ch1), r_handed)
    /\ r_ret = Ok =>
        AtEndOfStream(ft_pos, ft_in_buffer) /\ r_handed = MakeAsciiLowercase(input)

\* the reader thread has returned Ok after a stream with an uppercase letter
\* and a '\n' before its last byte
C16_Witness ==
    /\ r_ret = Ok /\ r_handed = MakeAsciiLowercase(input)
    /\ \E i \in 1..(Len(input) - 1) : input[i] = NL
    /\ \E i \in 1..Len(input) : input[i] = 65

----------------------------------------------------------------------------
(* C17 *)

\* bytes_buffer ends in '\n'.  With the reader at read_until this is the fill
\* as fill_buf returned it: a turn of read_until that goes on appends no '\n'
EndsInNL(buf) == buf # <<>> /\ Last(buf) = NL

\* C17 as stated (conditional extension): when the fill ends in '\n' the chunk
\* is that fill: read_until appends nothing to it.
C17_AsStated ==
    /\ [][(fs_pc = "read_until" /\ EndsInNL(fs_bytes_buffer))
            => fs_bytes_buffer' = fs_bytes_buffer]_vars
    /\ [][(r_pc = "read_until" /\ EndsInNL(r_bytes_buffer))
            => r_bytes_buffer' = r_bytes_buffer]_vars

\* the fill: what the BufReader held, or what one read of stdin returned,
\* copied from the place in the stream the last chunk ended at
IsFill(buf, consumed) ==
    /\ Len(buf) <= MaxFill
    /\ buf = SubSeq(input, consumed + 1, consumed + Len(buf))

\* a turn of read_until from bytes_buffer `buf` to `buf2`: it appends bytes with
\* no '\n' before the last of them, returns when the last of them is '\n' or
\* when there were none, and there are none only at the end of the stream
IsExtension(buf, buf2, returns, atEnd) ==
    LET ext == SubSeq(buf2, Len(buf) + 1, Len(buf2))
    IN  /\ IsPrefix(buf, buf2)
        /\ \A i \in 1..(Len(ext) - 1) : ext[i] # NL
        /\ returns <=> (ext = <<>> \/ Last(ext) = NL)
        /\ ext = <<>> => atEnd

\* C17 as amended (unconditional extension): the reader copies one fill and
\* then always goes on reading, whether or not the fill ends in '\n', until it
\* has appended a '\n' or the stream has ended; when the fill ends in '\n' and
\* the stream has not ended, the chunk is the fill followed by the next line.
C17_Extension ==
    /\ [][(fs_pc = "fill" /\ fs_pc' = "read_until") =>
            IsFill(fs_bytes_buffer', Len(Consumed(fs_pos, fs_in_buffer)))]_vars
    /\ [][(fs_pc = "read_until" /\ fs_pc' \in {"read_until", "chunk"}) =>
            IsExtension(fs_bytes_buffer, fs_bytes_buffer', fs_pc' = "chunk",
                        AtEndOfStream(fs_pos', fs_in_buffer'))]_vars
    /\ [][(r_pc = "fill" /\ r_pc' = "read_until") =>
            IsFill(r_bytes_buffer', Len(Consumed(ft_pos, ft_in_buffer)))]_vars
    /\ [][(r_pc = "read_until" /\ r_pc' \in {"read_until", "chunk"} /\ r_vars' # r_vars) =>
            IsExtension(r_bytes_buffer, r_bytes_buffer', r_pc' = "chunk",
                        AtEndOfStream(ft_pos', ft_in_buffer'))]_vars

\* a chunk longer than any fill, with '\n' as the last byte a fill can hold and
\* as its own last byte: the fill ended in '\n' and the next line was appended
C17_Witness ==
    /\ fs_pc = "chunk" /\ Len(fs_bytes_buffer) = MaxFill + 2
    /\ fs_bytes_buffer[MaxFill] = NL
    /\ fs_bytes_buffer[MaxFill + 1] # NL
    /\ fs_bytes_buffer[MaxFill + 2] = NL

----------------------------------------------------------------------------
(* C18 *)

\* the flush of one program: it succeeds at most once, in a step taken with
\* every line written and writing none; try_main returns Ok exactly when it
\* has succeeded; the status is 0 only then, and 1 after a flush error
FlushedOnce(out, ordered, flushes, ret, exit) ==
    /\ flushes \in {0, 1}
    /\ flushes = 1 <=> ret = Ok
    /\ ret \in {Ok, ErrFlush} => Len(out) = Len(ordered)
    /\ exit = 0 => flushes = 1
    /\ (ret = ErrFlush /\ exit # -1) => exit = 1

\* C18 (mandatory final flush): in both programs out_buffer is flushed at most
\* once, after the last line and before try_main returns; try_main returns Ok
\* exactly when the flush has succeeded, so the status is 0 only after it; a
\* flush error is returned and the status is 1; and nothing is written after
\* the flush.
C18_FinalFlush ==
    /\ [](FlushedOnce(fs_out, fs_ordered, fs_flushes, fs_ret, fs_exit))
    /\ [](FlushedOnce(ft_out, ft_ordered, ft_flushes, ft_ret, ft_exit))
    /\ [][(fs_ret \in {Ok, ErrFlush}) => (fs_out' = fs_out /\ fs_ret' = fs_ret)]_vars
    /\ [][(ft_ret \in {Ok, ErrFlush}) => (ft_out' = ft_out /\ ft_ret' = ft_ret)]_vars
    /\ [][(fs_pc = "emit" /\ Len(fs_out) = Len(fs_ordered) /\ fs_vars' # fs_vars)
            => fs_ret' \in {Ok, ErrFlush}]_vars
    /\ [][(ft_pc = "emit" /\ Len(ft_out) = Len(ft_ordered) /\ m_vars' # m_vars)
            => ft_ret' \in {Ok, ErrFlush}]_vars

\* fast-simple has written three lines, flushed and exited with status 0
C18_Witness ==
    /\ Len(fs_out) = 3 /\ fs_flushes = 1 /\ fs_ret = Ok /\ fs_exit = 0

----------------------------------------------------------------------------
(* C19 *)

\* the lines written are the first lines of `ordered` taken from its end
IsEmittedPrefix(out, ordered) ==
    /\ Len(out) <= Len(ordered)
    /\ \A i \in 1..Len(out) : out[i] = Line(ordered[Len(ordered) - i + 1])
    /\ \A i, j \in 1..Len(out) : i < j => LineCount(out[i]) >= LineCount(out[j])

\* one program after a write error: the lines written before it are a proper
\* prefix of the descending sequence, nothing was flushed, the status is 1
FailedFast(out, ordered, flushes, ret, exit) ==
    ret = ErrWrite =>
        /\ IsEmittedPrefix(out, ordered) /\ Len(out) < Len(ordered)
        /\ flushes = 0
        /\ exit \in {-1, 1}

\* C19 (fail-fast emission): in both programs, once writeln! has returned an
\* error no line is written and no flush made, try_main's result stays that
\* error and the status is 1; the lines written before the error are the
\* first lines of the descending-count sequence.
C19_FailFast ==
    /\ [](FailedFast(fs_out, fs_ordered, fs_flushes, fs_ret, fs_exit))
    /\ [](FailedFast(ft_out, ft_ordered, ft_flushes, ft_ret, ft_exit))
    /\ [][fs_ret = ErrWrite =>
            (fs_out' = fs_out /\ fs_flushes' = fs_flushes /\ fs_ret' = fs_ret)]_vars
    /\ [][ft_ret = ErrWrite =>
            (ft_out' = ft_out /\ ft_flushes' = ft_flushes /\ ft_ret' = ft_ret)]_vars

\* fun-with-threads has exited with status 1 on a write error at the third of
\* three lines
C19_Witness ==
    /\ ft_ret = ErrWrite /\ ft_exit = 1
    /\ Len(ft_ordered) = 3 /\ Len(ft_out) = 2

============================================================================
